---- MODULE Spec2Model ----
(***************************************************************************)
(* nyaggle.experiment.gbdt: experiment_gbdt and _dispatch_gbdt.            *)
(*                                                                         *)
(* The state is what outlives a call inside one Python process: the file   *)
(* system under the logging directories, the handlers attached to the      *)
(* module logger getLogger(__name__), and the fit_params dict object a     *)
(* caller may pass to several calls.  `last` records the most recent call: *)
(* its arguments, what it handed to the cross-validation driver, and what  *)
(* it returned or raised.                                                  *)
(*                                                                         *)
(* Numbers: label and prediction values are stored doubled (the stored 3   *)
(* is the value 1.5), so that non-integral labels exist; scores are kept   *)
(* as exact fractions [num, den].                                          *)
(***************************************************************************)
EXTENDS Integers, Sequences, FiniteSets, TLC

VARIABLES fs, handlers, caller_fit_params, last, runs

vars == <<fs, handlers, caller_fit_params, last, runs>>

(***************************************************************************)
(* Bounds                                                                  *)
(***************************************************************************)
\* calls of experiment_gbdt in one process, specification Spec
MaxRuns == 2
\* calls of experiment_gbdt in one process, specifications SpecData and
\* SpecFrames
MaxDataRuns == 1

(***************************************************************************)
(* Python values                                                           *)
(***************************************************************************)
\* Optional[...] arguments: None, or a value
NoneValue == [is_none |-> TRUE, value |-> <<>>]
Some(v) == [is_none |-> FALSE, value |-> v]

\* a dict is the sequence of its <<key, value>> items in insertion order
EmptyDict == <<>>
DictHas(d, k) == \E i \in 1..Len(d) : d[i][1] = k
DictKeys(d) == [i \in 1..Len(d) |-> d[i][1]]
\* d[k] = v: an existing key keeps its position and takes the new value
DictSet(d, k, v) ==
    IF DictHas(d, k)
    THEN [i \in 1..Len(d) |-> IF d[i][1] = k THEN <<k, v>> ELSE d[i]]
    ELSE Append(d, <<k, v>>)

Range(s) == {s[i] : i \in 1..Len(s)}

RECURSIVE SumSeq(_)
SumSeq(s) == IF s = <<>> THEN 0 ELSE Head(s) + SumSeq(Tail(s))

Abs(x) == IF x < 0 THEN -x ELSE x

(***************************************************************************)
(* Data frames and label series                                            *)
(***************************************************************************)
\* pandas calls an unnamed index None
NoName == "None"

NoFrame == [is_none |-> TRUE, columns |-> <<>>, dtypes |-> <<>>,
            index_name |-> NoName, index |-> <<>>, id_values |-> <<>>]

\* DataFrame.set_index(col, inplace=True): the column leaves the columns and
\* becomes the index, carrying its name and its values
set_index(frame, col) ==
    LET keep == {i \in 1..Len(frame.columns) : frame.columns[i] # col}
        pos(k) == CHOOSE i \in keep : Cardinality({j \in keep : j < i}) = k - 1
    IN  [is_none |-> FALSE,
         columns |-> [k \in 1..Cardinality(keep) |-> frame.columns[pos(k)]],
         dtypes |-> [k \in 1..Cardinality(keep) |-> frame.dtypes[pos(k)]],
         index_name |-> col,
         index |-> frame.id_values,
         id_values |-> <<>>]

\* sklearn.utils.multiclass.type_of_target on a one-dimensional label:
\* a non-integral value makes it continuous, more than two distinct values
\* multiclass, otherwise binary
type_of_target(y) ==
    IF \E i \in 1..Len(y.values) : y.values[i] % 2 # 0 THEN "continuous"
    ELSE IF Cardinality(Range(y.values)) > 2 THEN "multiclass"
    ELSE "binary"

(***************************************************************************)
(* Metrics (sklearn.metrics), as exact fractions                           *)
(***************************************************************************)
mean_squared_error(y_true, y_pred) ==
    [num |-> SumSeq([i \in 1..Len(y_true) |-> (y_true[i] - y_pred[i]) * (y_true[i] - y_pred[i])]),
     den |-> 4 * Len(y_true)]

mean_absolute_error(y_true, y_pred) ==
    [num |-> SumSeq([i \in 1..Len(y_true) |-> Abs(y_true[i] - y_pred[i])]),
     den |-> 2 * Len(y_true)]

\* area under the ROC curve: the share of (positive, negative) pairs the
\* score orders correctly, ties counting one half
roc_auc_score(y_true, y_score) ==
    LET top == CHOOSE m \in Range(y_true) : \A v \in Range(y_true) : v <= m
        pos == {i \in 1..Len(y_true) : y_true[i] = top}
        neg == {i \in 1..Len(y_true) : y_true[i] # top}
    IN  [num |-> 2 * Cardinality({p \in pos \X neg : y_score[p[1]] > y_score[p[2]]})
                 + Cardinality({p \in pos \X neg : y_score[p[1]] = y_score[p[2]]}),
         den |-> 2 * Cardinality(pos) * Cardinality(neg)]

\* calling an evaluation function object
CallEval(fn, y_true, y_pred) ==
    CASE fn = "roc_auc_score" -> roc_auc_score(y_true, y_pred)
      [] fn = "mean_squared_error" -> mean_squared_error(y_true, y_pred)
      [] fn = "mean_absolute_error" -> mean_absolute_error(y_true, y_pred)

(***************************************************************************)
(* _dispatch_gbdt                                                          *)
(***************************************************************************)
gbdt_table == <<
    <<"binary", "lgbm", "LGBMClassifier", "roc_auc_score", "categorical_feature", "_get_importance_lgbm">>,
    <<"continuous", "lgbm", "LGBMRegressor", "mean_squared_error", "categorical_feature", "_get_importance_lgbm">>,
    <<"binary", "cat", "CatBoostClassifier", "roc_auc_score", "cat_features", "_get_importance_cat">>,
    <<"continuous", "cat", "CatBoostRegressor", "mean_squared_error", "cat_features", "_get_importance_cat">> >>

\* more_itertools.first_true(table, pred=...): the first row the predicate
\* accepts, None when there is none
first_true(table, gbdt_type, target_type) ==
    LET hits == {i \in 1..Len(table) : table[i][1] = target_type /\ table[i][2] = gbdt_type}
    IN  IF hits = {} THEN NoneValue
        ELSE Some(table[CHOOSE i \in hits : \A j \in hits : i <= j])

NoDispatch == [model |-> "None", eval |-> "None", cat_param |-> "None", get_importance |-> "None"]

\* the function, changed so that a custom eval is dropped
DispatchDropsCustomEval(gbdt_type, target_type, custom_eval) ==
    LET found == first_true(gbdt_table, gbdt_type, target_type)
    IN  IF found.is_none
        THEN [raised |-> "RuntimeError",
              message |-> <<"Not supported gbdt_type (", gbdt_type,
                            ") or type_of_target (", target_type, ").">>,
              ret |-> NoDispatch]
        ELSE [raised |-> "None", message |-> <<>>,
              ret |-> [model |-> found.value[3], eval |-> found.value[4],
                       cat_param |-> found.value[5], get_importance |-> found.value[6]]]

\* the function, changed so that the lookup matches on the backend alone
DispatchIgnoresTarget(gbdt_type, target_type, custom_eval) ==
    LET hits == {i \in 1..Len(gbdt_table) : gbdt_table[i][2] = gbdt_type}
        row == gbdt_table[CHOOSE i \in hits : \A j \in hits : i <= j]
    IN  IF hits = {}
        THEN [raised |-> "RuntimeError",
              message |-> <<"Not supported gbdt_type (", gbdt_type,
                            ") or type_of_target (", target_type, ").">>,
              ret |-> NoDispatch]
        ELSE [raised |-> "None", message |-> <<>>,
              ret |-> [model |-> row[3],
                       eval |-> IF custom_eval # "None" THEN custom_eval ELSE row[4],
                       cat_param |-> row[5], get_importance |-> row[6]]]

_dispatch_gbdt(gbdt_type, target_type, custom_eval) ==
    LET found == first_true(gbdt_table, gbdt_type, target_type)
    IN  IF found.is_none
        THEN [raised |-> "RuntimeError",
              message |-> <<"Not supported gbdt_type (", gbdt_type,
                            ") or type_of_target (", target_type, ").">>,
              ret |-> NoDispatch]
        ELSE [raised |-> "None", message |-> <<>>,
              ret |-> [model |-> found.value[3],
                       eval |-> IF custom_eval # "None" THEN custom_eval ELSE found.value[4],
                       cat_param |-> found.value[5], get_importance |-> found.value[6]]]

(***************************************************************************)
(* nyaggle.model.cv.cv, the cross-validation driver                        *)
(***************************************************************************)
\* row r (from 1) of n rows lies in fold FoldOf (from 0) of nfolds:
\* contiguous blocks whose sizes differ by at most one, or, stratified,
\* the rows of each label value dealt round-robin (the assignment for one
\* fixed seed)
FoldStart(i, n, nfolds) ==
    i * (n \div nfolds) + (IF i < n % nfolds THEN i ELSE n % nfolds)

FoldOf(r, values, nfolds, stratify) ==
    IF stratify
    THEN Cardinality({q \in 1..(r - 1) : values[q] = values[r]}) % nfolds
    ELSE CHOOSE i \in 0..(nfolds - 1) :
            /\ FoldStart(i, Len(values), nfolds) < r
            /\ r <= FoldStart(i + 1, Len(values), nfolds)

\* the entries of s at the positions in rows, order kept
RECURSIVE Pick(_, _, _)
Pick(s, rows, from) ==
    IF from > Len(s) THEN <<>>
    ELSE (IF from \in rows THEN <<s[from]>> ELSE <<>>) \o Pick(s, rows, from + 1)

\* model.fit(features, labels, **fit_params): the fitted model keeps the
\* (floored) mean of the labels it saw and the keyword arguments it got
Fit(model, labels, fit_params) ==
    [cls |-> model.cls, params |-> model.params,
     fitted |-> SumSeq(labels) \div Len(labels), fit_kwargs |-> fit_params]

\* model.predict(features): one prediction per row
Predict(model, nrows) == [r \in 1..nrows |-> model.fitted]

cv(models, X_train, y, X_test, nfolds, eval, stratified, fit_params) ==
    LET n == Len(y.values)
        classification == type_of_target(y) \in {"binary", "multiclass"}
        stratify == stratified /\ classification
        fold(r) == FoldOf(r, y.values, nfolds, stratify)
        held(i) == {r \in 1..n : fold(r) = i}
        fitted == [k \in 1..nfolds |->
                    Fit(models[k], Pick(y.values, (1..n) \ held(k - 1), 1), fit_params)]
        oof == [r \in 1..n |-> fitted[fold(r) + 1].fitted]
        ntest == Len(X_test.index)
        test == [r \in 1..ntest |->
                    SumSeq([k \in 1..nfolds |-> Predict(fitted[k], ntest)[r]]) \div nfolds]
        fold_scores == [k \in 1..nfolds |->
                    CallEval(eval, Pick(y.values, held(k - 1), 1), Pick(oof, held(k - 1), 1))]
    IN  IF nfolds > n \/ (stratify /\ Cardinality(Range(y.values)) < nfolds)
        THEN [raised |-> "FoldingError", predicted_oof |-> <<>>, predicted_test |-> NoneValue,
              scores |-> <<>>, fitted |-> <<>>, log |-> <<>>]
        ELSE [raised |-> "None",
              predicted_oof |-> oof,
              predicted_test |-> IF X_test.is_none THEN NoneValue ELSE Some(test),
              scores |-> IF eval = "None" THEN <<>>
                         ELSE Append(fold_scores, CallEval(eval, y.values, oof)),
              fitted |-> fitted,
              log |-> [k \in 1..nfolds |-> <<"Fold ", k - 1>>]]

(***************************************************************************)
(* The file system and the module logger                                   *)
(***************************************************************************)
Dirs == {"out_a", "out_b"}

NoDir == [exists |-> FALSE, files |-> <<>>]

WriteFile(files, dir, name, content) ==
    [files EXCEPT ![dir].files =
        [f \in (DOMAIN files[dir].files) \cup {name} |->
            IF f = name THEN content ELSE files[dir].files[f]]]

\* os.makedirs that never minds an existing directory
MakedirsAlwaysExistOk(files, path, exist_ok) ==
    [raised |-> "None",
     fs |-> IF files[path].exists THEN files
            ELSE [files EXCEPT ![path] = [exists |-> TRUE, files |-> <<>>]]]

\* os.makedirs(path, exist_ok=...)
makedirs(files, path, exist_ok) ==
    IF files[path].exists
    THEN [raised |-> IF exist_ok THEN "None" ELSE "FileExistsError", fs |-> files]
    ELSE [raised |-> "None", fs |-> [files EXCEPT ![path] = [exists |-> TRUE, files |-> <<>>]]]

\* FileHandler(os.path.join(logging_directory, 'log.txt')): the file is
\* opened for appending when the handler is made, which creates it
FileHandler(files, dir) ==
    IF "log.txt" \in DOMAIN files[dir].files THEN files
    ELSE WriteFile(files, dir, "log.txt", <<>>)

\* logger.info(line): every handler attached to the logger appends the
\* line to its own file
RECURSIVE logger_info(_, _, _)
logger_info(files, hs, line) ==
    IF hs = <<>> THEN files
    ELSE logger_info(
            WriteFile(files, Head(hs), "log.txt", Append(files[Head(hs)].files["log.txt"], line)),
            Tail(hs), line)

RECURSIVE logger_info_all(_, _, _)
logger_info_all(files, hs, lines) ==
    IF lines = <<>> THEN files
    ELSE logger_info_all(logger_info(files, hs, Head(lines)), hs, Tail(lines))

(***************************************************************************)
(* experiment_gbdt, step by step                                           *)
(***************************************************************************)
\* lines 93-99: make id_column the index
NormalizeIndex(id_column, X_train, X_test) ==
    IF id_column \in Range(X_train.columns)
    THEN IF ~X_test.is_none /\ X_train.columns # X_test.columns
         THEN [raised |-> "AssertionError", X_train |-> X_train, X_test |-> X_test]
         ELSE [raised |-> "None",
               X_train |-> set_index(X_train, id_column),
               X_test |-> IF X_test.is_none THEN X_test ELSE set_index(X_test, id_column)]
    ELSE [raised |-> IF X_train.index_name = id_column THEN "None" ELSE "AssertionError",
          X_train |-> X_train, X_test |-> X_test]

\* lines 112-113: the categorical columns, by dtype unless given
ResolveCategorical(X_train, categorical_feature) ==
    IF categorical_feature.is_none
    THEN LET cat == {i \in 1..Len(X_train.columns) : X_train.dtypes[i] \in {"object", "category"}}
         IN  Pick(X_train.columns, cat, 1)
    ELSE categorical_feature.value

\* lines 120-121, changed so that the caller's flag is always kept
StratifiedKept(target_type, stratified) == stratified

\* lines 120-121
ResolveStratified(target_type, stratified) ==
    IF target_type \notin {"binary", "multiclass"} THEN FALSE ELSE stratified

\* lines 132-135: fit_params.is_none is fit_params=None; otherwise the
\* argument is the caller's dict object, and the item is set on that object
ResolveFitParams(fit_params, cat_param_name, categorical_feature) ==
    LET d == IF fit_params.is_none THEN EmptyDict ELSE fit_params.value
    IN  IF cat_param_name # "None" /\ ~DictHas(d, cat_param_name)
        THEN DictSet(d, cat_param_name, categorical_feature)
        ELSE d

\* model.booster_.feature_importance(importance_type='gain') and
\* model.get_feature_importance(): one number per feature
GetFeatureImportance(get_importance, model, nfeatures) ==
    IF get_importance = "_get_importance_lgbm"
    THEN [k \in 1..nfeatures |-> model.fitted + k]
    ELSE [k \in 1..nfeatures |-> model.fitted + 2 * k]

\* rows by the importance column, largest first
RECURSIVE SortDescending(_)
SortDescending(rows) ==
    IF rows = <<>> THEN <<>>
    ELSE LET best == CHOOSE i \in 1..Len(rows) :
                        /\ \A j \in 1..Len(rows) : rows[j].importance <= rows[i].importance
                        /\ \A j \in 1..(i - 1) : rows[j].importance < rows[i].importance
         IN  <<rows[best]>> \o SortDescending(Pick(rows, (1..Len(rows)) \ {best}, 1))

\* lines 125-130 and 141-144: the per-fold frames the callback collects,
\* averaged per feature and sorted; features of equal importance stay in
\* column order
AggregateImportance(get_importance, fitted, columns) ==
    LET per_fold == [k \in 1..Len(fitted) |->
                        GetFeatureImportance(get_importance, fitted[k], Len(columns))]
        mean(c) == SumSeq([k \in 1..Len(fitted) |-> per_fold[k][c]]) \div Len(fitted)
    IN  SortDescending([c \in 1..Len(columns) |->
                        [feature |-> columns[c], importance |-> mean(c)]])

\* lines 152-155: pd.DataFrame({id_column: X_test.index, y.name: predicted_test})
SubmissionFrame(id_column, X_test, y, predicted_test) ==
    LET d == DictSet(DictSet(EmptyDict, id_column, X_test.index), y.name, predicted_test.value)
    IN  [header |-> DictKeys(d),
         rows |-> [r \in 1..Len(X_test.index) |-> [c \in 1..Len(d) |-> d[c][2][r]]]]

NoResult == [predicted_oof |-> <<>>, predicted_test |-> NoneValue, scores |-> <<>>,
             models |-> <<>>, importance |-> <<>>]

NoCv == [called |-> FALSE, stratified |-> FALSE, eval |-> "None", fit_params |-> EmptyDict,
         returned |-> FALSE, predicted_oof |-> <<>>, scores |-> <<>>]

\* What a call leaves behind: the file system, the logger's handlers, the
\* caller's fit_params object, and the record of the call.  The elapsed
\* wall-clock time of the result is not modelled.
Outcome(a, files, hs, fit_obj, raised, train_index, test_index, cv_args, ret) ==
    [fs |-> files, handlers |-> hs, caller_fit_params |-> fit_obj,
     last |-> [op |-> "experiment_gbdt", args |-> a, raised |-> raised,
               train_index |-> train_index, test_index |-> test_index,
               cv |-> cv_args, ret |-> ret]]

experiment_gbdt(files, hs, fit_obj, a) ==
    LET norm == NormalizeIndex(a.id_column, a.X_train, a.X_test)
        X_train == norm.X_train
        X_test == norm.X_test
        made == makedirs(files, a.logging_directory, a.overwrite)
        hs1 == Append(hs, a.logging_directory)
        categorical == ResolveCategorical(X_train, a.categorical_feature)
        fs1 == logger_info_all(FileHandler(made.fs, a.logging_directory), hs1,
                  << <<"GBDT: ", a.gbdt_type>>,
                     <<"Experiment: ", a.logging_directory>>,
                     <<"Params: ", a.model_params>>,
                     <<"Features: ", X_train.columns>>,
                     <<"Categorical: ", categorical>> >>)
        target_type == type_of_target(a.y)
        disp == _dispatch_gbdt(a.gbdt_type, target_type, a.eval)
        models == [k \in 1..a.nfolds |-> [cls |-> disp.ret.model, params |-> a.model_params]]
        stratified == ResolveStratified(target_type, a.stratified)
        passed == IF a.fit_params.is_none THEN NoneValue ELSE Some(fit_obj)
        fit_params == ResolveFitParams(passed, disp.ret.cat_param, categorical)
        fit_obj1 == IF a.fit_params.is_none THEN fit_obj ELSE fit_params
        result == cv(models, X_train, a.y, X_test, a.nfolds, disp.ret.eval, stratified, fit_params)
        cv_args == [called |-> TRUE, stratified |-> stratified, eval |-> disp.ret.eval,
                    fit_params |-> fit_params, returned |-> result.raised = "None",
                    predicted_oof |-> result.predicted_oof, scores |-> result.scores]
        fs2 == logger_info_all(fs1, hs1, result.log)
        importance == AggregateImportance(disp.ret.get_importance, result.fitted, X_train.columns)
        fs3 == WriteFile(
                 WriteFile(
                   WriteFile(fs2, a.logging_directory, "feature_importance.png", importance),
                   a.logging_directory, "oof.npy", result.predicted_oof),
                 a.logging_directory, "test.npy", result.predicted_test)
        submit == SubmissionFrame(a.id_column, X_test, a.y, result.predicted_test)
        fs4 == WriteFile(fs3, a.logging_directory, a.submission_filename, submit)
        ret == [predicted_oof |-> result.predicted_oof, predicted_test |-> result.predicted_test,
                scores |-> result.scores, models |-> result.fitted, importance |-> importance]
    IN  IF norm.raised # "None"
        THEN Outcome(a, files, hs, fit_obj, norm.raised,
                     X_train.index_name, X_test.index_name, NoCv, NoResult)
        ELSE IF made.raised # "None"
        THEN Outcome(a, files, hs, fit_obj, made.raised,
                     X_train.index_name, X_test.index_name, NoCv, NoResult)
        ELSE IF disp.raised # "None"
        THEN Outcome(a, fs1, hs1, fit_obj, disp.raised,
                     X_train.index_name, X_test.index_name, NoCv, NoResult)
        ELSE IF result.raised # "None"
        THEN Outcome(a, fs2, hs1, fit_obj1, result.raised,
                     X_train.index_name, X_test.index_name, cv_args, NoResult)
        ELSE IF X_test.is_none
        THEN Outcome(a, fs3, hs1, fit_obj1, "AttributeError",
                     X_train.index_name, X_test.index_name, cv_args, NoResult)
        ELSE Outcome(a, fs4, hs1, fit_obj1, "None",
                     X_train.index_name, X_test.index_name, cv_args, ret)

(***************************************************************************)
(* Callers: the arguments the calls are made with                          *)
(***************************************************************************)
TrainWithIdColumn ==
    [is_none |-> FALSE, columns |-> <<"id", "f", "c">>,
     dtypes |-> <<"int64", "float64", "category">>,
     index_name |-> NoName, index |-> <<0, 1, 2, 3>>, id_values |-> <<101, 102, 103, 104>>]

TrainIndexed ==
    [is_none |-> FALSE, columns |-> <<"f", "c">>, dtypes |-> <<"float64", "category">>,
     index_name |-> "id", index |-> <<101, 102, 103, 104>>, id_values |-> <<>>]

TrainWithoutId ==
    [is_none |-> FALSE, columns |-> <<"f", "c">>, dtypes |-> <<"float64", "category">>,
     index_name |-> NoName, index |-> <<0, 1, 2, 3>>, id_values |-> <<>>]

TestWithIdColumn ==
    [is_none |-> FALSE, columns |-> <<"id", "f", "c">>,
     dtypes |-> <<"int64", "float64", "category">>,
     index_name |-> NoName, index |-> <<0, 1>>, id_values |-> <<201, 202>>]

TestIndexed ==
    [is_none |-> FALSE, columns |-> <<"f", "c">>, dtypes |-> <<"float64", "category">>,
     index_name |-> "id", index |-> <<201, 202, 203>>, id_values |-> <<>>]

TestWithoutId ==
    [is_none |-> FALSE, columns |-> <<"f", "c">>, dtypes |-> <<"float64", "category">>,
     index_name |-> NoName, index |-> <<0, 1>>, id_values |-> <<>>]

TestOtherColumns ==
    [is_none |-> FALSE, columns |-> <<"id", "f">>, dtypes |-> <<"int64", "float64">>,
     index_name |-> NoName, index |-> <<0, 1>>, id_values |-> <<201, 202>>]

TrainFrames == {TrainWithIdColumn, TrainIndexed, TrainWithoutId}
TestFrames == {NoFrame, TestWithIdColumn, TestIndexed, TestWithoutId, TestOtherColumns}

\* label series (values doubled): 0/1 labels, labels 0.5 1.5 2 3, labels
\* 0 1 2 1, and 0/1 labels in a series that carries the identifier's name
BinaryLabel == [name |-> "target", values |-> <<0, 2, 0, 2>>]
ContinuousLabel == [name |-> "target", values |-> <<1, 3, 4, 6>>]
MulticlassLabel == [name |-> "target", values |-> <<0, 2, 4, 2>>]
LabelNamedAsId == [name |-> "id", values |-> <<0, 2, 0, 2>>]
LabelSeries == {BinaryLabel, ContinuousLabel, MulticlassLabel, LabelNamedAsId}

ModelParams == << <<"max_depth", 8>> >>

\* the dict a caller keeps and may pass as fit_params to every call
InitialFitParams == << <<"early_stopping_rounds", 100>> >>
CallerDict == [is_none |-> FALSE, value |-> "caller_fit_params"]

GbdtTypes == {"lgbm", "cat", "xgb"}
TargetTypes == {"binary", "continuous", "multiclass", "multiclass-multioutput",
                "continuous-multioutput", "multilabel-indicator", "unknown"}
CustomEvals == {"None", "mean_absolute_error", "mean_squared_error", "roc_auc_score"}

(***************************************************************************)
(* The state machine                                                       *)
(***************************************************************************)
Init ==
    /\ fs = [d \in Dirs |-> NoDir]
    /\ handlers = <<>>
    /\ caller_fit_params = InitialFitParams
    /\ last = [op |-> "None"]
    /\ runs = 0

\* one call of experiment_gbdt, from entry to return or raise
Call(a) ==
    \E out \in {experiment_gbdt(fs, handlers, caller_fit_params, a)} :
        /\ fs' = out.fs
        /\ handlers' = out.handlers
        /\ caller_fit_params' = out.caller_fit_params
        /\ last' = out.last
        /\ runs' = runs + 1

\* calls that differ in where they write and in what they share
ExperimentGbdt ==
    /\ runs < MaxRuns
    /\ \E dir \in Dirs, overwrite \in BOOLEAN, gbdt_type \in GbdtTypes,
          fit_params \in {NoneValue, CallerDict},
          categorical_feature \in {NoneValue, Some(<<"f">>)} :
            Call([logging_directory |-> dir, model_params |-> ModelParams, id_column |-> "id",
                  X_train |-> TrainWithIdColumn, y |-> BinaryLabel, X_test |-> TestWithIdColumn,
                  eval |-> "None", gbdt_type |-> gbdt_type, fit_params |-> fit_params,
                  nfolds |-> 2, overwrite |-> overwrite, stratified |-> FALSE,
                  categorical_feature |-> categorical_feature,
                  submission_filename |-> "submission.csv"])

\* calls that differ in the labels and in how they are to be evaluated
ExperimentGbdtData ==
    /\ runs < MaxDataRuns
    /\ \E X_test \in {NoFrame, TestWithIdColumn}, y \in LabelSeries,
          eval \in {"None", "mean_absolute_error"}, gbdt_type \in GbdtTypes,
          stratified \in BOOLEAN, nfolds \in {2, 5} :
            Call([logging_directory |-> "out_a", model_params |-> ModelParams, id_column |-> "id",
                  X_train |-> TrainWithIdColumn, y |-> y, X_test |-> X_test,
                  eval |-> eval, gbdt_type |-> gbdt_type, fit_params |-> NoneValue,
                  nfolds |-> nfolds, overwrite |-> TRUE, stratified |-> stratified,
                  categorical_feature |-> NoneValue,
                  submission_filename |-> "submission.csv"])

\* calls that differ in the frames and in the name of the label
ExperimentGbdtFrames ==
    /\ runs < MaxDataRuns
    /\ \E X_train \in TrainFrames, X_test \in TestFrames, y \in {BinaryLabel, LabelNamedAsId},
          eval \in {"None", "mean_absolute_error"}, gbdt_type \in GbdtTypes :
            Call([logging_directory |-> "out_a", model_params |-> ModelParams, id_column |-> "id",
                  X_train |-> X_train, y |-> y, X_test |-> X_test,
                  eval |-> eval, gbdt_type |-> gbdt_type, fit_params |-> NoneValue,
                  nfolds |-> 2, overwrite |-> TRUE, stratified |-> FALSE,
                  categorical_feature |-> NoneValue,
                  submission_filename |-> "submission.csv"])

\* one direct call of _dispatch_gbdt
DispatchGbdt ==
    /\ \E gbdt_type \in GbdtTypes \cup {"LGBM"}, target_type \in TargetTypes,
          custom_eval \in CustomEvals :
            \E d \in {_dispatch_gbdt(gbdt_type, target_type, custom_eval)} :
                last' = [op |-> "_dispatch_gbdt", gbdt_type |-> gbdt_type,
                         target_type |-> target_type, custom_eval |-> custom_eval,
                         raised |-> d.raised, message |-> d.message, ret |-> d.ret]
    /\ UNCHANGED <<fs, handlers, caller_fit_params, runs>>

Next == ExperimentGbdt
Spec == Init /\ [][Next]_vars

NextData == ExperimentGbdtData
SpecData == Init /\ [][NextData]_vars

NextFrames == ExperimentGbdtFrames
SpecFrames == Init /\ [][NextFrames]_vars

NextDispatch == DispatchGbdt
SpecDispatch == Init /\ [][NextDispatch]_vars

(***************************************************************************)
(* Properties                                                              *)
(***************************************************************************)
IsRun == last.op = "experiment_gbdt"
IsDispatch == last.op = "_dispatch_gbdt"
RunFiles == fs[last.args.logging_directory].files

\* the evaluation function a run is to be scored with: the caller's, or
\* the default for the label type
ExpectedEval ==
    IF last.args.eval # "None" THEN last.args.eval
    ELSE IF type_of_target(last.args.y) = "continuous" THEN "mean_squared_error"
    ELSE "roc_auc_score"

RowsFor(gbdt_type, target_type) ==
    {r \in Range(gbdt_table) : r[1] = target_type /\ r[2] = gbdt_type}

\* C2: _dispatch_gbdt succeeds exactly when target_type is binary or
\* continuous and gbdt_type is lgbm or cat, and then returns the model
\* class, default eval, categorical parameter name and importance extractor
\* of the one matching row; every other pair raises an error whose message
\* names both the gbdt_type and the target_type.
C2_DispatchDomain ==
    IsDispatch =>
        LET supported == /\ last.target_type \in {"binary", "continuous"}
                         /\ last.gbdt_type \in {"lgbm", "cat"}
            rows == RowsFor(last.gbdt_type, last.target_type)
        IN  /\ (last.raised = "None") <=> supported
            /\ supported =>
                /\ Cardinality(rows) = 1
                /\ \A r \in rows :
                    /\ last.ret.model = r[3]
                    /\ last.custom_eval = "None" => last.ret.eval = r[4]
                    /\ last.ret.cat_param = r[5]
                    /\ last.ret.get_importance = r[6]
            /\ ~supported =>
                /\ last.raised = "RuntimeError"
                /\ last.gbdt_type \in Range(last.message)
                /\ last.target_type \in Range(last.message)

C2_Witness ==
    /\ IsDispatch
    /\ last.target_type = "multiclass" /\ last.gbdt_type = "lgbm"
    /\ last.raised = "RuntimeError"

\* C3: a custom evaluation function overrides the table's default for that
\* call only: the call returns the custom function with the model class,
\* categorical parameter name and importance extractor of the table row,
\* and a call without a custom function returns the row's default eval
\* whatever call came before it, one with a custom function included.
C3_CustomEvalForThatCallOnly ==
    [][(last'.op = "_dispatch_gbdt" /\ last'.raised = "None") =>
        \A r \in RowsFor(last'.gbdt_type, last'.target_type) :
            /\ last'.custom_eval # "None" =>
                /\ last'.ret.eval = last'.custom_eval
                /\ last'.ret.model = r[3]
                /\ last'.ret.cat_param = r[5]
                /\ last'.ret.get_importance = r[6]
            /\ last'.custom_eval = "None" => last'.ret.eval = r[4]]_vars

C3_Witness ==
    /\ IsDispatch /\ last.raised = "None"
    /\ last.custom_eval = "mean_absolute_error"
    /\ last.target_type = "binary"
    /\ last.ret.eval = "mean_absolute_error"

\* C4: a run with overwrite=False on an output location that already exists
\* raises an error and leaves every file untouched: nothing is logged, no
\* artifact is written, no handler is attached and the driver is not called.
C4_ConflictLeavesFilesAlone ==
    [][(/\ runs' = runs + 1
        /\ ~last'.args.overwrite
        /\ fs[last'.args.logging_directory].exists) =>
            /\ last'.raised # "None"
            /\ fs' = fs
            /\ handlers' = handlers
            /\ ~last'.cv.called]_vars

C4_Witness ==
    /\ IsRun /\ last.raised = "FileExistsError"
    /\ ~last.args.overwrite
    /\ "oof.npy" \in DOMAIN RunFiles

\* C5: with no test frame (X_test is None) a run whose driver returned
\* completes normally and returns predicted_test None, having saved the
\* out-of-fold predictions and written no submission file.
C5_NoTestFrameCompletes ==
    (IsRun /\ last.args.X_test.is_none /\ last.cv.returned) =>
        /\ last.raised = "None"
        /\ last.ret.predicted_test.is_none
        /\ "oof.npy" \in DOMAIN RunFiles
        /\ last.args.submission_filename \notin DOMAIN RunFiles

\* C6: after every successful run with a test frame the submission file has
\* exactly the columns [id_column, label name] in that order and one row
\* per test example, ids from the test index and values from the test
\* predictions, and oof.npy and test.npy exist beside it.
C6_SubmissionShape ==
    (IsRun /\ last.raised = "None" /\ ~last.args.X_test.is_none) =>
        /\ {"oof.npy", "test.npy", last.args.submission_filename} \subseteq DOMAIN RunFiles
        /\ LET submit == RunFiles[last.args.submission_filename]
               test == NormalizeIndex(last.args.id_column, last.args.X_train,
                                      last.args.X_test).X_test
           IN  /\ submit.header = <<last.args.id_column, last.args.y.name>>
               /\ Len(submit.rows) = Len(last.args.X_test.index)
               /\ \A r \in 1..Len(submit.rows) :
                    submit.rows[r] = <<test.index[r], last.ret.predicted_test.value[r]>>

\* whether a frame carries the identifier, as a column or as its index
HasId(frame, id_column) ==
    id_column \in Range(frame.columns) \/ frame.index_name = id_column

\* C7: normalization makes the identifier column the row index of both
\* frames, and the run fails before the output location is created whenever
\* the identifier is in one frame and not in the other, or the column sets
\* of the two frames differ.  (AssertionError is what lines 95 and 99
\* raise, ahead of os.makedirs on line 101.)
C7_IndexNormalization ==
    (IsRun /\ ~last.args.X_test.is_none) =>
        LET train == last.args.X_train
            test == last.args.X_test
            id == last.args.id_column
        IN  /\ last.raised # "AssertionError" =>
                /\ last.train_index = id
                /\ last.test_index = id
            /\ (\/ HasId(train, id) # HasId(test, id)
                \/ Range(train.columns) \ {id} # Range(test.columns) \ {id}) =>
                    last.raised = "AssertionError"

\* C8: each run writes only under its own output location: a run's log
\* lines never reach the log.txt of another location.
C8_RunWritesOnlyItsOwnLocation ==
    [][runs' = runs + 1 =>
        \A d \in Dirs \ {last'.args.logging_directory} : fs'[d] = fs[d]]_vars

\* the categorical list and parameter name a run resolves for itself
OwnCategorical ==
    ResolveCategorical(
        NormalizeIndex(last.args.id_column, last.args.X_train, last.args.X_test).X_train,
        last.args.categorical_feature)
OwnParamName == IF last.args.gbdt_type = "lgbm" THEN "categorical_feature" ELSE "cat_features"

\* C10: experiment_gbdt leaves the caller's fit_params dict as it was, so in
\* any sequence of runs sharing one dict each fit receives the run's own
\* categorical list under the run's own parameter name and no other
\* backend's categorical key.
C10_CallerFitParamsUntouched ==
    /\ caller_fit_params = InitialFitParams
    /\ (IsRun /\ last.cv.called /\ ~last.args.fit_params.is_none) =>
            last.cv.fit_params = DictSet(InitialFitParams, OwnParamName, OwnCategorical)

====
